---- MODULE Spec2Model ----
(***************************************************************************)
(* Model of the loong64 big-integer multiply kernel bigint_multiply_raw    *)
(* (src/arch/loong64/core/loong64_bigint.c) and of the RSA self-test that  *)
(* exercises it (src/tests/rsa_test.c).                                    *)
(*                                                                         *)
(* Memory is one word-addressed array.  An invocation gets the addresses   *)
(* and sizes of its three buffers, exactly as the C function does, and     *)
(* walks the result buffer through the pointer result_elements.  The word  *)
(* width is scaled down from 64 bits to WordBits bits; all word            *)
(* arithmetic wraps modulo BASE = 2^WordBits.                              *)
(***************************************************************************)
EXTENDS Integers, Sequences, FiniteSets, TLC

\* ------------------------------------------------------------------ bounds
WordBits   == 2
MaxLen1    == 3
MaxLen2    == 3
ShortLen   == 2
PairMaxLen == 2

BASE == 2 ^ WordBits
Word == 0 .. (BASE - 1)

\* Word values the operands are drawn from: operands of at most ShortLen
\* words take every value of OperandWords (all of Word when WordBits = 2),
\* longer ones the two extreme values.
OperandWords == {0, 1, BASE - 2, BASE - 1}
EdgeWords    == {0, BASE - 1}

\* What the caller's result buffer may hold before the call.
GarbageFill == {0, BASE - 1}

Procs == {1, 2}

\* Words of memory of a single call: result, multiplicand and multiplier
\* laid out back to back, and one spare word.
MemSize     == 2 * (MaxLen1 + MaxLen2) + 1
\* Words of memory of two concurrent calls: two results, then the operands.
PairMemSize == 8 * PairMaxLen + 1

VARIABLES
    mem,                   \* memory: Addr -> Word
    entry,                 \* memory as it was at call entry (history)
    args,                  \* per invocation: the five call arguments
    pc,                    \* per invocation: position in the function
    i, j,                  \* per invocation: loop counters
    multiplicand_element,  \* per invocation: multiplicand->element[i]
    result_elements,       \* per invocation: the asm's %0 pointer
    t0,                    \* per invocation: carry register $t0
    trace,                 \* per invocation: steps and result indices touched
    rsa                    \* the RSA self-test: its vector, position and outputs

vars == << mem, entry, args, pc, i, j, multiplicand_element,
           result_elements, t0, trace, rsa >>

\* The state of the multiply kernel's calls.
kernel_vars == << mem, entry, args, pc, i, j, multiplicand_element,
                 result_elements, t0, trace >>

\* ------------------------------------------------------------ value helpers
RECURSIVE SeqValue(_)
SeqValue(s) ==
    IF Len(s) = 0 THEN 0 ELSE Head(s) + BASE * SeqValue(Tail(s))

\* The sequence of n words, all v.
Fill(n, v) == [k \in 1 .. n |-> v]

\* The n words of memory m starting at address base, least significant first.
Words(m, base, n) == [k \in 1 .. n |-> m[base + k - 1]]

result_size(p) == args[p].multiplicand_size + args[p].multiplier_size

Multiplicand(p) == Words(entry, args[p].multiplicand0, args[p].multiplicand_size)
Multiplier(p)   == Words(entry, args[p].multiplier0, args[p].multiplier_size)
Result(p)       == Words(mem, args[p].result0, result_size(p))

ResultRegion(p) == args[p].result0 .. (args[p].result0 + result_size(p) - 1)

\* ------------------------------------------------------- the asm, as operators
\* mul.d / mulh.du: low and high halves of the double-word product.
MulLow(x, y)  == (x * y) % BASE

\* mulh.d in place of mulh.du: the high half of the signed product.
Signed(x) == IF 2 * x >= BASE THEN x - BASE ELSE x
MulHigh_Signed(x, y) == ((Signed(x) * Signed(y)) \div BASE) % BASE

MulHigh(x, y) == (x * y) \div BASE

\* slt in place of sltu: the comparison of the words as signed values.
Sltu_Signed(x, y) == IF Signed(x) < Signed(y) THEN 1 ELSE 0

\* add.d: wrapping addition.  sltu: set if less than, unsigned.
AddD(x, y) == (x + y) % BASE
Sltu(x, y) == IF x < y THEN 1 ELSE 0
Or(x, y)   == IF x # 0 \/ y # 0 THEN 1 ELSE 0

\* The two-word add without line 98 (or $t0, $t0, $t1): the carry out of
\* the high word's first addition is lost.
AsmMulAdd_DropHighCarry(m, ptr, x, y) ==
    LET low   == MulLow(x, y)
        high  == MulHigh(x, y)
        tlow  == AddD(m[ptr], low)
        c0    == Sltu(tlow, low)
        thigh == AddD(m[ptr + 1], high)
        thc   == AddD(thigh, c0)
        c2    == Sltu(thc, c0)
    IN  [ mem |-> [m EXCEPT ![ptr] = tlow, ![ptr + 1] = thc],
          ptr |-> ptr + 2,
          t0  |-> c2,
          c0  |-> c0, c1 |-> 0, c2 |-> c2 ]

\* Lines 84-103: one multiply and the two-word add at ptr, ptr+1.
\* Yields the new memory, the advanced pointer and the carry in $t0, and
\* the three carry bits computed on the way: c0 of the low word (line 91),
\* c1 of the high word (line 94), c2 of adding c0 to the high word (line 97).
AsmMulAdd(m, ptr, x, y) ==
    LET low   == MulLow(x, y)
        high  == MulHigh(x, y)
        tlow  == AddD(m[ptr], low)
        c0    == Sltu(tlow, low)
        thigh == AddD(m[ptr + 1], high)
        c1    == Sltu(thigh, high)
        thc   == AddD(thigh, c0)
        c2    == Sltu(thc, c0)
    IN  [ mem |-> [m EXCEPT ![ptr] = tlow, ![ptr + 1] = thc],
          ptr |-> ptr + 2,
          t0  |-> Or(c2, c1),
          c0  |-> c0, c1 |-> c1, c2 |-> c2 ]

\* The carry loop without line 108 (sltu $t0, %3, $t0): $t0 keeps its value.
AsmCarry_NoSltu(m, ptr, c) ==
    LET t == AddD(m[ptr], c)
    IN  [ mem |-> [m EXCEPT ![ptr] = t],
          ptr |-> ptr + 1,
          t0  |-> c ]

\* Lines 106-110: one iteration of the carry-propagation loop.
AsmCarry(m, ptr, c) ==
    LET t == AddD(m[ptr], c)
    IN  [ mem |-> [m EXCEPT ![ptr] = t],
          ptr |-> ptr + 1,
          t0  |-> Sltu(t, c) ]

\* No memset at all.
Memset_Skip(m, base, n) == m

\* A memset one word too long.
Memset_Overrun(m, base, n) ==
    [k \in DOMAIN m |-> IF k >= base /\ k < base + n + 1 THEN 0 ELSE m[k]]

\* Line 68: memset ( result, 0, sizeof ( *result ) ).
Memset(m, base, n) ==
    [k \in DOMAIN m |-> IF k >= base /\ k < base + n THEN 0 ELSE m[k]]

\* ------------------------------------------------- the call, as a function
\* Lines 104-112: the carry loop run to its end.
RECURSIVE CarryLoop(_, _, _)
CarryLoop(m, ptr, c) ==
    IF c = 0 \/ ptr \notin DOMAIN m
    THEN m
    ELSE LET r == AsmCarry(m, ptr, c) IN CarryLoop(r.mem, r.ptr, r.t0)

\* Lines 71-123: the two nested loops from the pair (ii, jj) on.
RECURSIVE MultiplyLoops(_, _, _, _, _)
MultiplyLoops(m, a, b, ii, jj) ==
    IF ~ (ii < Len(a)) THEN m
    ELSE IF ~ (jj < Len(b)) THEN MultiplyLoops(m, a, b, ii + 1, 0)
    ELSE LET r == AsmMulAdd(m, ii + jj, a[ii + 1], b[jj + 1])
         IN  MultiplyLoops(CarryLoop(r.mem, r.ptr, r.t0), a, b, ii, jj + 1)

\* bigint_multiply_raw run alone on operands a and b, with a result buffer
\* of its own holding BASE-1 in every word: the result words it returns.
MultiplyRaw(a, b) ==
    LET n  == Len(a) + Len(b)
        m0 == [k \in 0 .. (n - 1) |-> BASE - 1]
        m  == MultiplyLoops(Memset(m0, 0, n), a, b, 0, 0)
    IN  [k \in 1 .. n |-> m[k - 1]]

\* ------------------------------------------------- portable reference kernel
\* The schoolbook kernel of the specification: add the double-word product
\* of each pair at word position i+j, carrying into higher words until no
\* carry is left.  r is 1-indexed, k the position, v what is still to add.
RECURSIVE PortableAddAt(_, _, _)
PortableAddAt(r, k, v) ==
    IF v = 0 \/ k > Len(r)
    THEN r
    ELSE LET s == r[k] + (v % BASE)
         IN  PortableAddAt([r EXCEPT ![k] = s % BASE], k + 1,
                           (v \div BASE) + (s \div BASE))

RECURSIVE PortableRows(_, _, _, _, _)
PortableRows(r, a, b, ii, jj) ==
    IF ii > Len(a) THEN r
    ELSE IF jj > Len(b) THEN PortableRows(r, a, b, ii + 1, 1)
    ELSE PortableRows(PortableAddAt(r, ii + jj - 1, a[ii] * b[jj]),
                      a, b, ii, jj + 1)

PortableMultiply(a, b) ==
    PortableRows(Fill(Len(a) + Len(b), 0), a, b, 1, 1)

\* ---------------------------------------------------------------------- RSA
\* The n words of the value v, least significant first.
RECURSIVE ToWords(_, _)
ToWords(v, n) ==
    IF n = 0 THEN << >> ELSE << v % BASE >> \o ToWords(v \div BASE, n - 1)

\* The number of words needed to hold values below v.
RECURSIVE WordsFor(_)
WordsFor(v) == IF v <= 1 THEN 0 ELSE 1 + WordsFor((v + BASE - 1) \div BASE)

RECURSIVE BitLength(_)
BitLength(e) == IF e = 0 THEN 0 ELSE 1 + BitLength(e \div 2)

ExponentBit(e, k) == (e \div (2 ^ k)) % 2

\* Division-based reduction of a double-width product to modulus width.
Reduce(x, modulus) == ToWords(SeqValue(x) % modulus, WordsFor(modulus))

\* Square-and-multiply over the exponent bits k, k-1, ..., 0: square the
\* accumulator and reduce; if the bit is set, multiply by base and reduce.
RECURSIVE ModExpBits(_, _, _, _, _)
ModExpBits(acc, base, e, k, modulus) ==
    IF k < 0 THEN acc
    ELSE LET sq == Reduce(MultiplyRaw(acc, acc), modulus)
             nx == IF ExponentBit(e, k) = 1
                   THEN Reduce(MultiplyRaw(sq, base), modulus)
                   ELSE sq
         IN  ModExpBits(nx, base, e, k - 1, modulus)

\* base^exponent mod modulus; the accumulator starts at 1.
ModExp(base, exponent, modulus) ==
    LET size == WordsFor(modulus)
    IN  SeqValue(ModExpBits(ToWords(1 % modulus, size), ToWords(base, size),
                            exponent, BitLength(exponent) - 1, modulus))

\* A key is a modulus and an exponent; encryption and decryption are both
\* the modular exponentiation with the key's exponent.
RsaKey(modulus, exponent) == [modulus |-> modulus, exponent |-> exponent]
rsa_encrypt(key, plaintext)  == ModExp(plaintext, key.exponent, key.modulus)
rsa_decrypt(key, ciphertext) == ModExp(ciphertext, key.exponent, key.modulus)

\* Matching key pairs: modulus p*q, public and private exponents inverse
\* modulo lcm(p-1, q-1).
RsaKeyPairs ==
    { [private |-> RsaKey(15, 3), public |-> RsaKey(15, 3)],
      [private |-> RsaKey(21, 5), public |-> RsaKey(21, 5)],
      [private |-> RsaKey(33, 7), public |-> RsaKey(33, 3)],
      [private |-> RsaKey(35, 5), public |-> RsaKey(35, 5)] }

\* Test vectors: a key pair, a plaintext that fits the modulus, and the
\* reference ciphertext, computed independently of the kernel.
RsaTests ==
    UNION { { [private    |-> kp.private,
               public     |-> kp.public,
               plaintext  |-> m,
               ciphertext |-> (m ^ kp.public.exponent) % kp.public.modulus] :
                 m \in 0 .. (kp.public.modulus - 1) } :
            kp \in RsaKeyPairs }

RsaState(test, at, encrypted, decrypted) ==
    [test |-> test, at |-> at, encrypted |-> encrypted, decrypted |-> decrypted]

NoTest == [private |-> RsaKey(0, 0), public |-> RsaKey(0, 0),
           plaintext |-> 0, ciphertext |-> 0]

RsaIdle == RsaState(NoTest, "idle", 0, << >>)

\* ------------------------------------------------------------ RSA signatures
DigestAlgorithms == {"md5", "sha1", "sha256"}

\* The identifier the signature encoding carries for each digest algorithm.
AlgorithmId(algorithm) ==
    CASE algorithm = "md5"    -> 1
      [] algorithm = "sha1"   -> 2
      [] algorithm = "sha256" -> 3

\* A one-word digest of the plaintext, different for each algorithm.
Digest(algorithm, plaintext) ==
    (plaintext * (2 * AlgorithmId(algorithm) + 1) + AlgorithmId(algorithm)) % BASE

\* The encoded digest that is signed: the algorithm identifier, never zero,
\* above the digest.  No randomness enters it.
rsa_encode_digest(algorithm, plaintext) ==
    AlgorithmId(algorithm) * BASE + Digest(algorithm, plaintext)

\* Signatures are word arrays of the modulus' width.
rsa_sign(key, algorithm, plaintext) ==
    ToWords(ModExp(rsa_encode_digest(algorithm, plaintext),
                   key.exponent, key.modulus),
            WordsFor(key.modulus))

\* A verification that compares the digest word only, not the identifier
\* above it.
rsa_verify_DigestOnly(key, algorithm, plaintext, signature) ==
    IF ModExp(SeqValue(signature) % key.modulus, key.exponent, key.modulus) % BASE
           = Digest(algorithm, plaintext)
    THEN "ok"
    ELSE "EACCES_VERIFY"

\* 0 (success) when the signature, raised to the key's exponent, is the
\* encoded digest of the plaintext; otherwise the error EACCES_VERIFY.
rsa_verify(key, algorithm, plaintext, signature) ==
    IF ModExp(SeqValue(signature) % key.modulus, key.exponent, key.modulus)
           = rsa_encode_digest(algorithm, plaintext)
    THEN "ok"
    ELSE "EACCES_VERIFY"

SignaturePlaintexts == 0 .. (2 * BASE - 1)

\* The value (b^e) mod n that a test vector records, by repeated
\* multiplication of residues.
RECURSIVE PowMod(_, _, _)
PowMod(b, e, n) == IF e = 0 THEN 1 % n ELSE (b * PowMod(b, e - 1, n)) % n

\* Signature test vectors: a key pair, a plaintext, a digest algorithm whose
\* encoded digest fits the modulus, and the reference signature, computed
\* independently of the kernel.
RsaSignatureTests ==
    { [private   |-> t[1].private,
       public    |-> t[1].public,
       plaintext |-> t[3],
       algorithm |-> t[2],
       signature |-> ToWords(PowMod(rsa_encode_digest(t[2], t[3]),
                                    t[1].private.exponent,
                                    t[1].private.modulus),
                             WordsFor(t[1].private.modulus))] :
         t \in { u \in RsaKeyPairs \X DigestAlgorithms \X SignaturePlaintexts :
                    rsa_encode_digest(u[2], u[3]) < u[1].private.modulus } }

SignatureState(test, at, signature, verified) ==
    [test |-> test, at |-> at, signature |-> signature, verified |-> verified]

\* ------------------------------------------------------------------ layout
ZeroMem(size) == [k \in 0 .. (size - 1) |-> 0]

\* Memory m with the words of s stored from address base on.
PlaceWords(m, base, s) ==
    [k \in DOMAIN m |->
        IF k >= base /\ k < base + Len(s) THEN s[k - base + 1] ELSE m[k]]

CallArgs(a0, asize, b0, bsize, r0) ==
    [ multiplicand0     |-> a0,
      multiplicand_size |-> asize,
      multiplier0       |-> b0,
      multiplier_size   |-> bsize,
      result0           |-> r0 ]

NoArgs == CallArgs(0, 0, 0, 0, 0)

Operands(maxlen) ==
    UNION { [1 .. n -> IF n <= ShortLen THEN OperandWords ELSE EdgeWords] :
               n \in 0 .. maxlen }

PairOperands == UNION { [1 .. n -> EdgeWords] : n \in 0 .. PairMaxLen }

\* ------------------------------------------------------------------- Init
Registers ==
    /\ i = [p \in Procs |-> 0]
    /\ j = [p \in Procs |-> 0]
    /\ multiplicand_element = [p \in Procs |-> 0]
    /\ result_elements = [p \in Procs |-> args[p].result0]
    /\ t0 = [p \in Procs |-> 0]
    /\ trace = [p \in Procs |-> << >>]

\* One call: the result buffer at address 0 holding fill, the multiplicand
\* right behind it, the multiplier behind that.
Init ==
    \E a \in Operands(MaxLen1), b \in Operands(MaxLen2), fill \in GarbageFill :
        LET n == Len(a) + Len(b)
        IN  /\ mem = PlaceWords(PlaceWords(PlaceWords(ZeroMem(MemSize),
                         0, Fill(n, fill)), n, a), n + Len(a), b)
            /\ entry = mem
            /\ args = [p \in Procs |->
                         IF p = 1 THEN CallArgs(n, Len(a), n + Len(a), Len(b), 0)
                                  ELSE NoArgs]
            /\ pc = [p \in Procs |-> IF p = 1 THEN "memset" ELSE "idle"]
            /\ Registers
            /\ rsa = RsaIdle

\* Two calls in flight.  Their result buffers are adjacent and disjoint from
\* each other and from every operand.  The second call either multiplies
\* the same two operand buffers in the other order ("swap"), or its own
\* operands of the same lengths, all words zero or all words BASE-1.
PairModes == {"swap", "zero", "max"}

InitPair ==
    \E a \in PairOperands, b \in PairOperands, mode \in PairModes :
        LET n  == Len(a) + Len(b)
            a2 == Fill(Len(a), IF mode = "zero" THEN 0 ELSE BASE - 1)
            b2 == Fill(Len(b), IF mode = "zero" THEN 0 ELSE BASE - 1)
            m1 == PlaceWords(PlaceWords(PlaceWords(ZeroMem(PairMemSize),
                       0, Fill(2 * n, BASE - 1)), 2 * n, a), 2 * n + Len(a), b)
            m2 == PlaceWords(PlaceWords(m1, 3 * n, a2), 3 * n + Len(a), b2)
        IN  /\ mem = IF mode = "swap" THEN m1 ELSE m2
            /\ entry = mem
            /\ args = [p \in Procs |->
                         IF p = 1
                         THEN CallArgs(2 * n, Len(a), 2 * n + Len(a), Len(b), 0)
                         ELSE IF mode = "swap"
                         THEN CallArgs(2 * n + Len(a), Len(b), 2 * n, Len(a), n)
                         ELSE CallArgs(3 * n, Len(a), 3 * n + Len(a), Len(b), n)]
            /\ pc = [p \in Procs |-> "memset"]
            /\ Registers
            /\ rsa = RsaIdle

\* ---------------------------------------------------------------- actions
\* Line 68: zero the result, then enter the outer loop with i = 0.
Zero(p) ==
    /\ pc[p] = "memset"
    /\ mem' = Memset(mem, args[p].result0, result_size(p))
    /\ i' = [i EXCEPT ![p] = 0]
    /\ pc' = [pc EXCEPT ![p] = "outer"]
    /\ trace' = [trace EXCEPT ![p] = Append(@, << "memset", 0, result_size(p) >>)]
    /\ UNCHANGED << rsa, entry, args, j, multiplicand_element, result_elements, t0 >>

\* Lines 71-73: outer loop test true; load multiplicand->element[i], j = 0.
OuterNext(p) ==
    /\ pc[p] = "outer"
    /\ i[p] < args[p].multiplicand_size
    /\ multiplicand_element' =
          [multiplicand_element EXCEPT ![p] = mem[args[p].multiplicand0 + i[p]]]
    /\ j' = [j EXCEPT ![p] = 0]
    /\ pc' = [pc EXCEPT ![p] = "inner"]
    /\ UNCHANGED << rsa, mem, entry, args, i, result_elements, t0, trace >>

\* Lines 71, 124: outer loop test false; the function returns.
Return(p) ==
    /\ pc[p] = "outer"
    /\ ~ (i[p] < args[p].multiplicand_size)
    /\ pc' = [pc EXCEPT ![p] = "done"]
    /\ UNCHANGED << rsa, mem, entry, args, i, j, multiplicand_element,
                    result_elements, t0, trace >>

\* Lines 73, 71: inner loop test false; i++.
InnerExit(p) ==
    /\ pc[p] = "inner"
    /\ ~ (j[p] < args[p].multiplier_size)
    /\ i' = [i EXCEPT ![p] = @ + 1]
    /\ pc' = [pc EXCEPT ![p] = "outer"]
    /\ UNCHANGED << rsa, mem, entry, args, j, multiplicand_element,
                    result_elements, t0, trace >>

\* Lines 73-104: inner loop test true; load the multiplier element, point
\* at result->element[i+j], multiply and add the double word, branch on $t0.
MulAdd(p) ==
    /\ pc[p] = "inner"
    /\ j[p] < args[p].multiplier_size
    /\ LET multiplier_element == mem[args[p].multiplier0 + j[p]]
           ptr == args[p].result0 + i[p] + j[p]
       IN  IF ptr + 1 \in DOMAIN mem
           THEN LET r == AsmMulAdd(mem, ptr, multiplicand_element[p],
                                   multiplier_element)
                IN  /\ mem' = r.mem
                    /\ result_elements' = [result_elements EXCEPT ![p] = r.ptr]
                    /\ t0' = [t0 EXCEPT ![p] = r.t0]
                    /\ pc' = [pc EXCEPT ![p] = IF r.t0 = 0 THEN "inner" ELSE "carry"]
                    /\ j' = [j EXCEPT ![p] = IF r.t0 = 0 THEN @ + 1 ELSE @]
           ELSE /\ pc' = [pc EXCEPT ![p] = "fault"]
                /\ result_elements' = [result_elements EXCEPT ![p] = ptr]
                /\ UNCHANGED << mem, t0, j >>
    /\ trace' = [trace EXCEPT ![p] = Append(@, << "muladd", i[p] + j[p], 2 >>)]
    /\ UNCHANGED << rsa, entry, args, i, multiplicand_element >>

\* Lines 105-111: one iteration of the carry loop; bnez $t0 repeats it,
\* otherwise the inner loop continues with j++.
Carry(p) ==
    /\ pc[p] = "carry"
    /\ LET ptr == result_elements[p]
       IN  IF ptr \in DOMAIN mem
           THEN LET r == AsmCarry(mem, ptr, t0[p])
                IN  /\ mem' = r.mem
                    /\ result_elements' = [result_elements EXCEPT ![p] = r.ptr]
                    /\ t0' = [t0 EXCEPT ![p] = r.t0]
                    /\ pc' = [pc EXCEPT ![p] = IF r.t0 = 0 THEN "inner" ELSE "carry"]
                    /\ j' = [j EXCEPT ![p] = IF r.t0 = 0 THEN @ + 1 ELSE @]
           ELSE /\ pc' = [pc EXCEPT ![p] = "fault"]
                /\ UNCHANGED << mem, result_elements, t0, j >>
    /\ trace' = [trace EXCEPT ![p] =
                    Append(@, << "carry", result_elements[p] - args[p].result0, 1 >>)]
    /\ UNCHANGED << rsa, entry, args, i, multiplicand_element >>

Step(p) ==
    \/ Zero(p)
    \/ OuterNext(p)
    \/ Return(p)
    \/ InnerExit(p)
    \/ MulAdd(p)
    \/ Carry(p)

Next == Step(1)

Spec == Init /\ [][Next]_vars

\* The processor runs the call without stopping: a step that can be taken
\* is taken.
SpecLive == Init /\ [][Next]_vars /\ WF_vars(Next)

\* One call into a result buffer that holds what an earlier call left there,
\* the product of the same operands, or else BASE-1 in every word.
PriorContents == {"product", "garbage"}

InitAgain ==
    \E a \in Operands(MaxLen1), b \in Operands(MaxLen2),
       prior \in PriorContents :
        LET n == Len(a) + Len(b)
            held == IF prior = "product" THEN MultiplyRaw(a, b)
                                         ELSE Fill(n, BASE - 1)
        IN  /\ mem = PlaceWords(PlaceWords(PlaceWords(ZeroMem(MemSize),
                         0, held), n, a), n + Len(a), b)
            /\ entry = mem
            /\ args = [p \in Procs |->
                         IF p = 1 THEN CallArgs(n, Len(a), n + Len(a), Len(b), 0)
                                  ELSE NoArgs]
            /\ pc = [p \in Procs |-> IF p = 1 THEN "memset" ELSE "idle"]
            /\ Registers
            /\ rsa = RsaIdle

SpecAgain == InitAgain /\ [][Next]_vars

NextPair == \E p \in Procs : Step(p)

SpecPair == InitPair /\ [][NextPair]_vars

\* ------------------------------------------------------- the RSA self-test
\* No call of the kernel is in flight on the modelled memory.
KernelIdle ==
    /\ mem = ZeroMem(MemSize)
    /\ entry = mem
    /\ args = [p \in Procs |-> NoArgs]
    /\ pc = [p \in Procs |-> "idle"]
    /\ Registers

InitRSA ==
    /\ KernelIdle
    /\ \E test \in RsaTests : rsa = RsaState(test, "decrypt_ok", 0, << >>)

\* rsa_encrypt_decrypt_ok, first check: pubkey_decrypt_ok decrypts the
\* reference ciphertext with the private key.
PubkeyDecryptOk ==
    /\ rsa.at = "decrypt_ok"
    /\ rsa' = [rsa EXCEPT
                 !.decrypted = Append(@, rsa_decrypt(rsa.test.private,
                                                     rsa.test.ciphertext)),
                 !.at = "encrypt_private"]
    /\ UNCHANGED kernel_vars

\* pubkey_encrypt_ok: encrypt the plaintext with encrypt_key.
PubkeyEncrypt(at, encrypt_key, then) ==
    /\ rsa.at = at
    /\ rsa' = [rsa EXCEPT
                 !.encrypted = rsa_encrypt(encrypt_key, rsa.test.plaintext),
                 !.at = then]
    /\ UNCHANGED kernel_vars

\* pubkey_encrypt_ok: decrypt what was encrypted with decrypt_key.
PubkeyDecrypt(at, decrypt_key, then) ==
    /\ rsa.at = at
    /\ rsa' = [rsa EXCEPT
                 !.decrypted = Append(@, rsa_decrypt(decrypt_key, rsa.encrypted)),
                 !.at = then]
    /\ UNCHANGED kernel_vars

\* Second check: encrypt with the private key, decrypt with the public key.
EncryptPrivate ==
    PubkeyEncrypt("encrypt_private", rsa.test.private, "decrypt_public")

DecryptPublic ==
    PubkeyDecrypt("decrypt_public", rsa.test.public, "encrypt_public")

\* Third check: encrypt with the public key, decrypt with the private key.
EncryptPublic ==
    PubkeyEncrypt("encrypt_public", rsa.test.public, "decrypt_private")

DecryptPrivate ==
    PubkeyDecrypt("decrypt_private", rsa.test.private, "done")

NextRSA ==
    \/ PubkeyDecryptOk
    \/ EncryptPrivate
    \/ DecryptPublic
    \/ EncryptPublic
    \/ DecryptPrivate

SpecRSA == InitRSA /\ [][NextRSA]_vars

\* ------------------------------------------------ the RSA signature self-test
InitSignature ==
    /\ KernelIdle
    /\ \E test \in RsaSignatureTests :
          rsa = SignatureState(test, "sign_ok", << >>, << >>)

\* rsa_signature_ok, first check: pubkey_sign_ok signs the plaintext with
\* the private key.
PubkeySignOk ==
    /\ rsa.at = "sign_ok"
    /\ rsa' = [rsa EXCEPT
                 !.signature = rsa_sign(rsa.test.private, rsa.test.algorithm,
                                        rsa.test.plaintext),
                 !.at = "verify_ok"]
    /\ UNCHANGED kernel_vars

\* Second check: pubkey_verify_ok verifies the reference signature with
\* the public key.
PubkeyVerifyOk ==
    /\ rsa.at = "verify_ok"
    /\ rsa' = [rsa EXCEPT
                 !.verified = Append(@, rsa_verify(rsa.test.public,
                                  rsa.test.algorithm, rsa.test.plaintext,
                                  rsa.test.signature)),
                 !.at = "verify_fail_ok"]
    /\ UNCHANGED kernel_vars

\* Third check: bad_signature is zeroed over the signature's length, and
\* pubkey_verify_fail_ok verifies it with the public key.
PubkeyVerifyFailOk ==
    /\ rsa.at = "verify_fail_ok"
    /\ LET bad_signature == Fill(Len(rsa.test.signature), 0)
       IN  rsa' = [rsa EXCEPT
                     !.verified = Append(@, rsa_verify(rsa.test.public,
                                      rsa.test.algorithm, rsa.test.plaintext,
                                      bad_signature)),
                     !.at = "done"]
    /\ UNCHANGED kernel_vars

NextSignature ==
    \/ PubkeySignOk
    \/ PubkeyVerifyOk
    \/ PubkeyVerifyFailOk

SpecSignature == InitSignature /\ [][NextSignature]_vars

\* ------------------------------------------------------------------ claims
Done(p) == pc[p] = "done"

AllZero(s) == \A k \in 1 .. Len(s) : s[k] = 0
AllMax(s)  == \A k \in 1 .. Len(s) : s[k] = BASE - 1

\* The call p ran the carry loop at least once.
Carried(p) == \E k \in 1 .. Len(trace[p]) : trace[p][k][1] = "carry"

\* The call p ran two carry-loop iterations in a row.
CarriedTwice(p) ==
    \E k \in 1 .. (Len(trace[p]) - 1) :
        trace[p][k][1] = "carry" /\ trace[p][k + 1][1] = "carry"

FullLength(p) ==
    /\ args[p].multiplicand_size = MaxLen1
    /\ args[p].multiplier_size = MaxLen2

\* The result buffer held BASE-1 in every word at call entry.
GarbageAtEntry(p) ==
    AllMax(Words(entry, args[p].result0, result_size(p)))

\* C1: when bigint_multiply_raw returns, the L1+L2 result words, read least
\* significant first, encode exactly value(a) * value(b).
C1_ExactProduct ==
    Done(1) =>
        /\ Len(Result(1)) = Len(Multiplicand(1)) + Len(Multiplier(1))
        /\ SeqValue(Result(1)) =
               SeqValue(Multiplicand(1)) * SeqValue(Multiplier(1))

\* A returned call on full-length operands whose product fills the top word
\* and that propagated carries.
C1_Witness ==
    /\ Done(1) /\ FullLength(1) /\ Carried(1)
    /\ Result(1)[result_size(1)] # 0
    /\ GarbageAtEntry(1)

\* C2: every result word the call reads or writes has an index in
\* 0..L1+L2-1: the two-word write of the pair about to be processed, the
\* word the carry loop is about to touch, and every access made so far.
C2_AccessInRange ==
    /\ pc[1] # "fault"
    /\ (pc[1] = "inner" /\ j[1] < args[1].multiplier_size) =>
           (i[1] + j[1] + 1) \in 0 .. (result_size(1) - 1)
    /\ pc[1] = "carry" => result_elements[1] \in ResultRegion(1)
    /\ \A k \in 1 .. Len(trace[1]) :
           /\ trace[1][k][2] >= 0
           /\ trace[1][k][2] + trace[1][k][3] <= result_size(1)

\* The maximal-carry case: every word of both operands is BASE-1, and the
\* carry loop is about to run its second iteration in a row.
C2_Witness ==
    /\ pc[1] = "carry"
    /\ FullLength(1)
    /\ AllMax(Multiplicand(1)) /\ AllMax(Multiplier(1))
    /\ Len(trace[1]) > 0 /\ trace[1][Len(trace[1])][1] = "carry"

\* C3: the loong64 kernel and the portable reference kernel end with the
\* same result words on the same operands.
C3_SameAsPortable ==
    Done(1) => Result(1) = PortableMultiply(Multiplicand(1), Multiplier(1))

C3_Witness ==
    /\ Done(1) /\ FullLength(1) /\ CarriedTwice(1)
    /\ ~ AllZero(Result(1))

\* C4: during and after the call every word of memory outside the result
\* buffer, the multiplicand and the multiplier among them, equals its value
\* at call entry.
C4_OnlyResultMutated ==
    /\ \A k \in DOMAIN mem \ ResultRegion(1) : mem[k] = entry[k]
    /\ Words(mem, args[1].multiplicand0, args[1].multiplicand_size)
           = Multiplicand(1)
    /\ Words(mem, args[1].multiplier0, args[1].multiplier_size)
           = Multiplier(1)

\* The call has written carries up to the last result word, next to the
\* multiplicand, whose first word is not zero.
C4_Witness ==
    /\ Done(1) /\ FullLength(1) /\ Carried(1)
    /\ mem # entry
    /\ Result(1)[result_size(1)] # 0
    /\ Multiplicand(1)[1] # 0

\* C5: of two calls whose steps interleave in any order, each ends with
\* exactly the result it produces when run alone.
C5_AsRunAlone ==
    \A p \in Procs :
        Done(p) => Result(p) = MultiplyRaw(Multiplicand(p), Multiplier(p))

\* Both calls have returned, each on operand buffers of its own, and both
\* propagated carries.
C5_Witness ==
    /\ Done(1) /\ Done(2)
    /\ Carried(1) /\ Carried(2)
    /\ args[1].multiplicand0 # args[2].multiplicand0
    /\ ~ AllZero(Result(1)) /\ ~ AllZero(Result(2))

\* C6: two calls with the same operand lengths perform the same sequence of
\* steps and of result-word accesses, whatever the operand values.
C6_SameAccessSequence ==
    ( /\ Done(1) /\ Done(2)
      /\ args[1].multiplicand_size = args[2].multiplicand_size
      /\ args[1].multiplier_size = args[2].multiplier_size )
    => trace[1] = trace[2]

\* C7: the result equals, word for word, the result of the call with
\* multiplicand and multiplier exchanged.
C7_Commutative ==
    Done(1) => Result(1) = MultiplyRaw(Multiplier(1), Multiplicand(1))

\* Operands of different lengths and values, with carries propagated.
C7_Witness ==
    /\ Done(1) /\ Carried(1)
    /\ args[1].multiplicand_size # args[1].multiplier_size
    /\ args[1].multiplicand_size > 1 /\ args[1].multiplier_size > 1
    /\ ~ AllZero(Result(1))

\* C8: when the multiplier or the multiplicand is all zero, every result
\* word is 0 when the call returns, whatever the buffer held before.
C8_TimesZero ==
    ( Done(1) /\ (AllZero(Multiplier(1)) \/ AllZero(Multiplicand(1))) )
    => AllZero(Result(1))

\* A non-zero multiplicand times a full-length zero multiplier, into a
\* buffer that held BASE-1 in every word.
C8_Witness ==
    /\ Done(1) /\ FullLength(1)
    /\ AllZero(Multiplier(1)) /\ AllMax(Multiplicand(1))
    /\ GarbageAtEntry(1)

\* C9: multiplying a by the one-word value 1 yields the words of a followed
\* by one zero word.
C9_TimesOne ==
    ( Done(1) /\ Multiplier(1) = << 1 >> )
    => Result(1) = Multiplicand(1) \o << 0 >>

\* A full-length multiplicand of BASE-1 words times 1, into a buffer that
\* held BASE-1 in every word.
C9_Witness ==
    /\ Done(1) /\ Multiplier(1) = << 1 >>
    /\ args[1].multiplicand_size = MaxLen1
    /\ AllMax(Multiplicand(1))
    /\ GarbageAtEntry(1)

\* C10: decrypting with one key of a matching pair what was encrypted with
\* the other returns the plaintext, in both directions, and decrypting the
\* reference ciphertext with the private key returns the plaintext: every
\* decryption the self-test has made so far gave the plaintext.
C10_RoundTrip ==
    \A k \in 1 .. Len(rsa.decrypted) : rsa.decrypted[k] = rsa.test.plaintext

\* The test has made all three decryptions, on a plaintext that encryption
\* changes under both keys.
C10_Witness ==
    /\ rsa.at = "done"
    /\ Len(rsa.decrypted) = 3
    /\ rsa.test.ciphertext # rsa.test.plaintext
    /\ rsa.encrypted # rsa.test.plaintext
    /\ rsa.test.private.exponent # rsa.test.public.exponent

\* C11: signing a plaintext with a private key and a digest algorithm gives
\* the one expected signature, and verifying that signature with the
\* matching public key, the same digest and the same plaintext succeeds.
C11_SignAndVerify ==
    /\ rsa.at \in {"verify_ok", "verify_fail_ok", "done"} =>
           rsa.signature = rsa.test.signature
    /\ rsa.at \in {"verify_fail_ok", "done"} => rsa.verified[1] = "ok"

\* The test has signed and verified, with different private and public
\* exponents and a signature that differs from the encoded digest.
C11_Witness ==
    /\ rsa.at = "done"
    /\ rsa.signature = rsa.test.signature
    /\ rsa.verified[1] = "ok"
    /\ rsa.test.private.exponent # rsa.test.public.exponent
    /\ SeqValue(rsa.signature)
           # rsa_encode_digest(rsa.test.algorithm, rsa.test.plaintext)

\* C12: verifying a signature of the correct length whose words are all
\* zero returns the error outcome, not success.
C12_ZeroSignatureFails ==
    rsa.at = "done" =>
        /\ Len(rsa.verified) = 2
        /\ rsa.verified[2] = "EACCES_VERIFY"

\* The all-zero signature has been verified, after the reference signature
\* of the same length was accepted.
C12_Witness ==
    /\ rsa.at = "done"
    /\ Len(rsa.verified) = 2
    /\ rsa.verified[1] = "ok"
    /\ rsa.verified[2] = "EACCES_VERIFY"
    /\ Len(rsa.test.signature) > 1

\* The sum of a[i'] * b[j'] * BASE^(i'+j') over the pairs that precede
\* (ii, jj) in row-major order: the rows below ii, and row ii up to jj.
PartialSum(a, b, ii, jj) ==
    SeqValue(SubSeq(a, 1, ii)) * SeqValue(b)
      + (IF ii < Len(a)
         THEN a[ii + 1] * SeqValue(SubSeq(b, 1, jj)) * (BASE ^ ii)
         ELSE 0)

\* The carry the loop still has to add, at the weight of the word it
\* points at.
PendingCarry(p) ==
    IF pc[p] = "carry"
    THEN t0[p] * (BASE ^ (result_elements[p] - args[p].result0))
    ELSE 0

\* After every completed pair the result's value is the sum over the pairs
\* processed so far, and at most value(a) * value(b) < BASE^(L1+L2); inside
\* the carry loop the pair's sum is the result plus the pending carry.
C13_SumOfPairs ==
    pc[1] \in {"outer", "inner", "carry", "done"} =>
        LET a == Multiplicand(1)
            b == Multiplier(1)
            sum == CASE pc[1] = "outer" -> PartialSum(a, b, i[1], 0)
                     [] pc[1] = "done"  -> PartialSum(a, b, Len(a), 0)
                     [] pc[1] = "inner" -> PartialSum(a, b, i[1], j[1])
                     [] pc[1] = "carry" -> PartialSum(a, b, i[1], j[1] + 1)
        IN  /\ SeqValue(Result(1)) + PendingCarry(1) = sum
            /\ sum <= SeqValue(a) * SeqValue(b)
            /\ SeqValue(a) * SeqValue(b) < BASE ^ (Len(a) + Len(b))

\* A step of the pair (i, j), the two-word add or a carry iteration, leaves
\* the result words below i+j unchanged; the two-word add raises the value
\* of the result, pending carry included, by a[i] * b[j] * BASE^(i+j), and
\* a carry iteration keeps it.
C13_PairStep ==
    ( (pc[1] = "inner" /\ j[1] < args[1].multiplier_size) \/ pc[1] = "carry" ) =>
        /\ \A w \in 1 .. (i[1] + j[1]) : Result(1)'[w] = Result(1)[w]
        /\ (SeqValue(Result(1)) + PendingCarry(1))'
             = SeqValue(Result(1)) + PendingCarry(1)
                 + (IF pc[1] = "inner"
                    THEN Multiplicand(1)[i[1] + 1] * Multiplier(1)[j[1] + 1]
                           * (BASE ^ (i[1] + j[1]))
                    ELSE 0)

\* C13: each step for a pair (i, j) adds exactly a[i] * b[j] * BASE^(i+j) to
\* the value of the result and keeps the words below i+j; after every
\* completed pair the value is the sum over the pairs processed so far, at
\* most value(a) * value(b) < BASE^(L1+L2).
C13_PairInvariant == [] C13_SumOfPairs /\ [][C13_PairStep]_vars

\* A pair beyond the first row and column has just been completed by the
\* carry loop.
C13_Witness ==
    /\ pc[1] = "inner" /\ FullLength(1)
    /\ i[1] >= 1 /\ j[1] >= 2
    /\ trace[1][Len(trace[1])][1] = "carry"
    /\ Multiplicand(1)[i[1] + 1] # 0

\* What the result buffer held at call entry.
ResultAtEntry(p) == Words(entry, args[p].result0, result_size(p))

\* C14: all L1+L2 result words are zero before any partial product is
\* added, so the result at return does not depend on what the buffer held
\* at entry: it is the result of the call on a buffer that held other
\* contents, a buffer that already held the product holds it again, and
\* with L1 = 0 or L2 = 0 the result is all zero.
C14_ZeroedFirst ==
    /\ (Len(trace[1]) > 0) => trace[1][1] = << "memset", 0, result_size(1) >>
    /\ (Len(trace[1]) = 1) => AllZero(Result(1))
    /\ Done(1) => Result(1) = MultiplyRaw(Multiplicand(1), Multiplier(1))
    /\ ( Done(1)
         /\ ResultAtEntry(1) = MultiplyRaw(Multiplicand(1), Multiplier(1)) )
       => Result(1) = ResultAtEntry(1)
    /\ ( Done(1)
         /\ (args[1].multiplicand_size = 0 \/ args[1].multiplier_size = 0) )
       => AllZero(Result(1))

\* The call has run again on a buffer that held the non-zero product of its
\* full-length operands.
C14_Witness ==
    /\ Done(1) /\ FullLength(1) /\ Carried(1)
    /\ ResultAtEntry(1) = Result(1)
    /\ ~ AllZero(Result(1))

\* The call has returned on an empty multiplier, from a buffer that held
\* BASE-1 in every word.
C14_WitnessEmpty ==
    /\ Done(1)
    /\ args[1].multiplier_size = 0 /\ args[1].multiplicand_size = MaxLen1
    /\ GarbageAtEntry(1)

\* The two-word add the call is about to make.
AtMulAdd(p) == pc[p] = "inner" /\ j[p] < args[p].multiplier_size

NextMulAdd(p) ==
    AsmMulAdd(mem, args[p].result0 + i[p] + j[p], multiplicand_element[p],
              mem[args[p].multiplier0 + j[p]])

NextProduct(p) == multiplicand_element[p] * mem[args[p].multiplier0 + j[p]]

\* The carry-loop iteration the call is about to make.
NextCarry(p) == AsmCarry(mem, result_elements[p], t0[p])

\* C15: the comparison after a wrapping addition is true exactly when the
\* addition overflowed, for all words and for a carry-in of 0 or 1; and
\* every carry bit the call is about to compute, of the low word, the high
\* word, the carry-in add and the loop, is the true carry-out.
C15_CarryByComparison ==
    /\ \A x \in Word, y \in Word :
           (Sltu(AddD(x, y), y) = 1) <=> (x + y >= BASE)
    /\ \A x \in Word, c \in {0, 1} :
           (Sltu(AddD(x, c), c) = 1) <=> (x + c >= BASE)
    /\ AtMulAdd(1) =>
           LET ptr  == args[1].result0 + i[1] + j[1]
               low  == NextProduct(1) % BASE
               high == NextProduct(1) \div BASE
               r    == NextMulAdd(1)
           IN  /\ r.c0 = (mem[ptr] + low) \div BASE
               /\ r.c1 = (mem[ptr + 1] + high) \div BASE
               /\ r.c2 = (((mem[ptr + 1] + high) % BASE) + r.c0) \div BASE
    /\ pc[1] = "carry" =>
           NextCarry(1).t0 = (mem[result_elements[1]] + t0[1]) \div BASE

\* The call is about to make a two-word add whose low word and high word
\* both overflow.
C15_Witness ==
    /\ AtMulAdd(1)
    /\ NextMulAdd(1).c0 = 1
    /\ NextMulAdd(1).c1 = 1

\* The carry loop is about to overflow a word and carry on.
C15_WitnessLoop ==
    /\ pc[1] = "carry"
    /\ NextCarry(1).t0 = 1

\* C16: in every two-word add the carry out of the high word and the carry
\* out of adding the low word's carry are never both 1, so their OR is
\* their sum; the carry passed to the loop and every carry in the loop is
\* 0 or 1.
C16_CarryIsBit ==
    /\ \A x \in Word, y \in Word, c \in {0, 1} :
           ~ (/\ Sltu(AddD(x, y), y) = 1
              /\ Sltu(AddD(AddD(x, y), c), c) = 1)
    /\ t0[1] \in {0, 1}
    /\ AtMulAdd(1) =>
           LET r == NextMulAdd(1)
           IN  /\ ~ (r.c1 = 1 /\ r.c2 = 1)
               /\ r.t0 = r.c1 + r.c2
               /\ r.t0 \in {0, 1}
    /\ pc[1] = "carry" => NextCarry(1).t0 \in {0, 1}

\* The call is about to make a two-word add in which the high word takes
\* the product's high half without overflow and then overflows on the low
\* word's carry.
C16_Witness ==
    /\ AtMulAdd(1)
    /\ NextMulAdd(1).c0 = 1
    /\ NextMulAdd(1).c1 = 0
    /\ NextMulAdd(1).c2 = 1
    /\ NextMulAdd(1).t0 = 1

\* The call is about to make a two-word add whose high word overflows on
\* the product's high half.
C16_WitnessHigh ==
    /\ AtMulAdd(1)
    /\ NextMulAdd(1).c1 = 1
    /\ NextMulAdd(1).c2 = 0
    /\ NextMulAdd(1).t0 = 1

\* The number of carry-loop iterations recorded right after entry q.
RECURSIVE CarryRun(_, _)
CarryRun(tr, q) ==
    IF q + 1 <= Len(tr) /\ tr[q + 1][1] = "carry"
    THEN 1 + CarryRun(tr, q + 1)
    ELSE 0

\* The number of two-word adds, one per pair, recorded in tr.
PairSteps(tr) == Cardinality({q \in 1 .. Len(tr) : tr[q][1] = "muladd"})

\* For every pair (i, j) processed, the carry loop has made, and is about
\* to make, at most L1+L2-(i+j+2) iterations; no more than L1*L2 pair steps
\* are made, and exactly L1*L2 at return.
C17_Bounded ==
    /\ \A q \in 1 .. Len(trace[1]) :
           trace[1][q][1] = "muladd" =>
               CarryRun(trace[1], q)
                 + (IF pc[1] = "carry" /\ q + CarryRun(trace[1], q) = Len(trace[1])
                    THEN 1 ELSE 0)
                 <= result_size(1) - (trace[1][q][2] + 2)
    /\ PairSteps(trace[1])
           <= args[1].multiplicand_size * args[1].multiplier_size
    /\ Done(1) =>
           PairSteps(trace[1])
               = args[1].multiplicand_size * args[1].multiplier_size

\* C17: the call terminates: every carry loop exits within the iterations
\* left in the result, and the call reaches its return, after exactly
\* L1*L2 pair steps.
C17_Terminates == <> Done(1) /\ [] C17_Bounded

\* The call has returned on full-length operands after a carry loop of two
\* iterations.
C17_Witness ==
    /\ Done(1) /\ FullLength(1) /\ CarriedTwice(1)
    /\ PairSteps(trace[1]) = MaxLen1 * MaxLen2

====
